---------------------------- MODULE Spec2Model ----------------------------
(***************************************************************************)
(* A model of five parts of vis:                                           *)
(*   - PartNotesIndexer._fill_space_between_offsets                        *)
(*     (src/analyzers/indexers/lilypond.py), the duration solver;          *)
(*   - FrequencyExperimenter.run (src/analyzers/experimenters/frequency.py)*)
(*   - LilyPondIndexer.__init__ and run (src/analyzers/indexers/lilypond.py)*)
(*   - PartNotesIndexer.run (src/analyzers/indexers/lilypond.py);          *)
(*   - VisController (src/controllers/vis_controller.py).                  *)
(*                                                                         *)
(* Offsets and quarterLength values are floats in the source.  Every       *)
(* duration the solver knows is a power of two between 4.0 and 0.015625,   *)
(* so the model measures time on a grid of StepsPer256th steps to one      *)
(* 0.015625 (a 256th note): on that grid the source's float subtractions   *)
(* and comparisons are exact, and the integers below are the floats        *)
(* multiplied by 64 * StepsPer256th.                                       *)
(***************************************************************************)
EXTENDS Integers, Sequences, FiniteSets, TLC

VARIABLES
    start_o,        \* _fill_space_between_offsets: argument start_o (grid steps)
    end_o,          \* _fill_space_between_offsets: argument end_o (grid steps)
    fill_pc,        \* "call" before the call, "done" after it returned or raised
    fill_result,    \* [raised |-> BOOLEAN, qls |-> the list returned]
    index,          \* FrequencyExperimenter._index: [form |-> "list" | "dict", voices |-> ...]
    results,        \* FrequencyExperimenter.run: what _do_multiprocessing returned
    table,          \* FrequencyExperimenter.run: the DataFrame returned
    freq_pc,        \* "new" before run(), "done" after it returned
    settings,       \* LilyPondIndexer.__init__: argument settings
    score_ok,       \* LilyPondIndexer.__init__: whether Indexer.__init__ accepts score
    self_settings,  \* LilyPondIndexer._settings
    base_initialised, \* whether Indexer.__init__ has run on the object
    lily_pc,        \* "new" before __init__, then "constructed" or the error raised
    lily_run,       \* LilyPondIndexer.run: [pc, annotated, opened]
    each_series,    \* PartNotesIndexer.run: the input series, a list of (offset, object)
    new_part,       \* PartNotesIndexer.run: the Part made, a list of [offset, obj, duration]
    part_pc,        \* "new" before run(), "done" after it returned, "raised" after it raised
    lists_of_pieces,  \* the ListOfPieces objects made so far: the number of pieces in each
    analyzer_list_of_pieces,        \* VisController.analyzer.list_of_pieces (an object)
    importer_thread_list_of_pieces, \* VisController.importer.thread.list_of_pieces (an object)
    _active_controller,  \* VisController._active_controller
    list_of_files,  \* the importer's ListOfFiles: the number of files in it
    importer_thread,    \* importer.thread: "idle" or "running"
    analyzer_thread,    \* analyzer.thread: "idle" or "running"
    vc_last         \* the last method of VisController that ran, and what it found

fill_vars == <<start_o, end_o, fill_pc, fill_result>>
freq_vars == <<index, results, table, freq_pc>>
lily_vars == <<settings, score_ok, self_settings, base_initialised, lily_pc, lily_run>>
part_vars == <<each_series, new_part, part_pc>>
vc_vars == <<lists_of_pieces, analyzer_list_of_pieces, importer_thread_list_of_pieces,
             _active_controller, list_of_files, importer_thread, analyzer_thread, vc_last>>

vars == <<start_o, end_o, fill_pc, fill_result, index, results, table, freq_pc,
          settings, score_ok, self_settings, base_initialised, lily_pc, lily_run,
          each_series, new_part, part_pc,
          lists_of_pieces, analyzer_list_of_pieces, importer_thread_list_of_pieces,
          _active_controller, list_of_files, importer_thread, analyzer_thread, vc_last>>

---------------------------------------------------------------------------
(* Bounds of the model. *)

\* grid steps to one 0.015625; 2 or more so that spans off the 0.015625 grid exist
StepsPer256th == 2
\* start offsets are drawn from 0..MaxStart (grid steps)
MaxStart == 3
\* end offsets are drawn from 0..MaxEnd (grid steps); above 8.0 at two steps per 256th
MaxEnd == 1100
\* a voice's series holds at most MaxObs observations
MaxObs == 2
\* a list-form index holds at most MaxVoices series
MaxVoices == 2
\* the series given to PartNotesIndexer.run holds at most MaxEvents events
MaxEvents == 3

---------------------------------------------------------------------------
(* Helpers on sequences. *)

Range(s) == {s[i] : i \in DOMAIN s}

\* the lists of at most n members of S
SeqsUpTo(S, n) == UNION {[1..k -> S] : k \in 0..n}

RECURSIVE SeqSum(_)
SeqSum(s) == IF s = <<>> THEN 0 ELSE Head(s) + SeqSum(Tail(s))

---------------------------------------------------------------------------
(* PartNotesIndexer._fill_space_between_offsets *)

\* quarterLength 1.0 on the grid
QL == 64 * StepsPer256th
\* the literal 4.0 of the_solver
WholeNote == 4 * QL
\* the literal 0.015625 of the_solver
Smallest == QL \div 64

\* [2.0, 1.0, 0.5, 0.25, 0.125, 0.0625, 0.03125, 0.015625, 0.0]
list_of_durations ==
    << 2 * QL, QL, QL \div 2, QL \div 4, QL \div 8, QL \div 16, QL \div 32,
       QL \div 64, 0 >>

\* what a Python function returns when it falls off its end
NoneValue == 0 - 1

\* for dur in list_of_durations: if dur < rem: return dur
RECURSIVE first_dur_below(_, _, _)
first_dur_below(durs, i, rem) ==
    IF i > Len(durs) THEN NoneValue
    ELSE IF durs[i] < rem THEN durs[i]
    ELSE first_dur_below(durs, i + 1, rem)

\* a list_of_durations that begins at 1.0
highest_valid_ql_without_half(rem) ==
    IF rem \in Range(Tail(list_of_durations)) THEN rem
    ELSE first_dur_below(Tail(list_of_durations), 1, rem)

\* a list_of_durations that also holds the dotted values 3.0, 1.5 and 0.75
highest_valid_ql_with_dotted(rem) ==
    LET durs == << 3 * QL, 2 * QL, 3 * (QL \div 2), QL, 3 * (QL \div 4) >>
                    \o Tail(Tail(list_of_durations)) IN
    IF rem \in Range(durs) THEN rem ELSE first_dur_below(durs, 1, rem)

highest_valid_ql(rem) ==
    IF rem \in Range(list_of_durations) THEN rem
    ELSE first_dur_below(list_of_durations, 1, rem)

\* a returned list, and the RuntimeError of the_solver
Returned(qls) == [raised |-> FALSE, qls |-> qls]
Raised == [raised |-> TRUE, qls |-> <<>>]

\* [x] + the_solver(...): the exception of the recursive call propagates
Prepend(x, rest) == IF rest.raised THEN Raised ELSE Returned(<<x>> \o rest.qls)

RECURSIVE the_solver(_)

\* the_solver whose last branch returns the_solver(ql_remains - 4.0) alone
the_solver_drops_whole(ql_remains) ==
    IF WholeNote = ql_remains THEN Returned(<<WholeNote>>)
    ELSE IF WholeNote > ql_remains /\ ql_remains >= 0 THEN
        IF Smallest > ql_remains THEN Returned(<<ql_remains>>)
        ELSE LET possible_finish == highest_valid_ql(ql_remains) IN
             IF possible_finish = ql_remains THEN Returned(<<ql_remains>>)
             ELSE Prepend(possible_finish, the_solver(ql_remains - possible_finish))
    ELSE IF ql_remains > WholeNote THEN the_solver(ql_remains - WholeNote)
    ELSE Raised

\* the_solver without the test possible_finish == ql_remains
the_solver_no_exact_finish(ql_remains) ==
    IF WholeNote = ql_remains THEN Returned(<<WholeNote>>)
    ELSE IF WholeNote > ql_remains /\ ql_remains >= 0 THEN
        IF Smallest > ql_remains THEN Returned(<<ql_remains>>)
        ELSE LET possible_finish == highest_valid_ql(ql_remains) IN
             Prepend(possible_finish, the_solver(ql_remains - possible_finish))
    ELSE IF ql_remains > WholeNote THEN
        Prepend(WholeNote, the_solver(ql_remains - WholeNote))
    ELSE Raised

the_solver(ql_remains) ==
    IF WholeNote = ql_remains THEN Returned(<<WholeNote>>)
    ELSE IF WholeNote > ql_remains /\ ql_remains >= 0 THEN
        IF Smallest > ql_remains THEN Returned(<<ql_remains>>)
        ELSE LET possible_finish == highest_valid_ql(ql_remains) IN
             IF possible_finish = ql_remains THEN Returned(<<ql_remains>>)
             ELSE Prepend(possible_finish, the_solver(ql_remains - possible_finish))
    ELSE IF ql_remains > WholeNote THEN
        Prepend(WholeNote, the_solver(ql_remains - WholeNote))
    ELSE Raised

\* the subtraction the other way round: the_solver(start_o - end_o)
fill_space_swapped(s, e) == the_solver(s - e)

fill_space_between_offsets(s, e) == the_solver(e - s)

\* the call _fill_space_between_offsets(start_o, end_o)
FillSpaceBetweenOffsets ==
    /\ fill_pc = "call"
    /\ fill_result' = fill_space_between_offsets(start_o, end_o)
    /\ fill_pc' = "done"
    /\ UNCHANGED <<start_o, end_o>>
    /\ UNCHANGED <<freq_vars, lily_vars, part_vars, vc_vars>>

\* no call of _fill_space_between_offsets is under way
FillIdle ==
    /\ start_o = 0
    /\ end_o = 0
    /\ fill_pc = "idle"
    /\ fill_result = Returned(<<>>)

\* no FrequencyExperimenter exists
FreqIdle ==
    /\ index = [form |-> "none", voices |-> <<>>]
    /\ results = <<>>
    /\ table = <<>>
    /\ freq_pc = "idle"

\* no LilyPondIndexer is being made
LilyIdle ==
    /\ settings = [none |-> TRUE, items |-> <<>>]
    /\ score_ok = TRUE
    /\ self_settings = <<>>
    /\ base_initialised = FALSE
    /\ lily_pc = "idle"
    /\ lily_run = [pc |-> "not_run", annotated |-> FALSE, opened |-> "nothing"]

\* no PartNotesIndexer is running
PartIdle ==
    /\ each_series = <<>>
    /\ new_part = <<>>
    /\ part_pc = "idle"

\* what vc_last holds while no method of VisController has run
NotCalled ==
    [op |-> "idle", files_before |-> 0, lists_before |-> 0, controller_before |-> "None"]

\* no VisController exists
VcIdle ==
    /\ lists_of_pieces = <<>>
    /\ analyzer_list_of_pieces = 0
    /\ importer_thread_list_of_pieces = 0
    /\ _active_controller = "None"
    /\ list_of_files = 0
    /\ importer_thread = "idle"
    /\ analyzer_thread = "idle"
    /\ vc_last = NotCalled

InitFill ==
    /\ start_o \in 0..MaxStart
    /\ end_o \in 0..MaxEnd
    /\ fill_pc = "call"
    /\ fill_result = Returned(<<>>)
    /\ FreqIdle
    /\ LilyIdle
    /\ PartIdle
    /\ VcIdle

NextFill == FillSpaceBetweenOffsets

SpecFill == InitFill /\ [][NextFill]_vars

---------------------------------------------------------------------------
(* Properties of _fill_space_between_offsets. *)

span == end_o - start_o
FillReturned == fill_pc = "done" /\ ~fill_result.raised
qls == fill_result.qls

\* {4.0, 2.0, 1.0, 0.5, 0.25, 0.125, 0.0625, 0.03125, 0.015625}
CanonicalUnits == {WholeNote} \cup (Range(list_of_durations) \ {0})

\* the longest list the solver can return within the bounds
MaxUnits == (MaxEnd \div WholeNote) + Len(list_of_durations) + 1

\* the sums of one unit more than the lists summing to the members of sums
OneMoreUnit(sums) ==
    UNION { {s} \cup {s + u : u \in {c \in CanonicalUnits : s + c <= MaxEnd}} : s \in sums }

\* SumsLadder(k)[j + 1]: the spans up to MaxEnd that some list of at most j
\* canonical units sums to, for j in 0..k
RECURSIVE SumsLadder(_)
SumsLadder(k) ==
    IF k = 0 THEN << {0} >>
    ELSE LET below == SumsLadder(k - 1) IN Append(below, OneMoreUnit(below[k]))

SumsOfAtMost == SumsLadder(MaxUnits)

\* C1: for a <= b the returned list sums exactly to b - a, also for spans
\* above 4.0, spans off the 0.015625 grid, and the zero span.
C1_SumIsSpan ==
    (FillReturned /\ start_o <= end_o) => SeqSum(qls) = span

C1_Witness ==
    /\ FillReturned
    /\ span > 2 * WholeNote
    /\ span % Smallest # 0
    /\ Len(qls) >= 4
    /\ SeqSum(qls) = span

\* C2: for a span > 0 that is a whole multiple of 0.015625 the returned list
\* is a list of canonical units summing to the span, no list of fewer
\* canonical units sums to the span, and a span of k * 4.0 gives k times 4.0.
C2_FewestUnits ==
    (fill_pc = "done" /\ span > 0 /\ span % Smallest = 0) =>
        /\ ~fill_result.raised
        /\ Range(qls) \subseteq CanonicalUnits
        /\ SeqSum(qls) = span
        /\ span \notin SumsOfAtMost[Len(qls)]
        /\ span % WholeNote = 0 =>
               qls = [i \in 1..(span \div WholeNote) |-> WholeNote]

C2_Witness ==
    /\ FillReturned
    /\ span > WholeNote
    /\ span % Smallest = 0
    /\ Len(qls) >= 5
    /\ span \in SumsOfAtMost[Len(qls) + 1]
    /\ span \notin SumsOfAtMost[Len(qls)]

\* C3: for a <= b every element of the returned list is a canonical unit,
\* except that the last element alone may be a remainder below 0.015625.
C3_CanonicalButLast ==
    (FillReturned /\ start_o <= end_o) =>
        /\ Len(qls) >= 1
        /\ \A i \in 1..(Len(qls) - 1) : qls[i] \in CanonicalUnits
        /\ \/ qls[Len(qls)] \in CanonicalUnits
           \/ qls[Len(qls)] >= 0 /\ qls[Len(qls)] < Smallest

C3_Witness ==
    /\ FillReturned
    /\ Len(qls) >= 3
    /\ qls[Len(qls)] \notin CanonicalUnits
    /\ qls[Len(qls)] > 0
    /\ qls[Len(qls)] < Smallest

\* C4 as stated: for a <= b, a = b included, every element of the returned
\* list is strictly positive.
C4_AllPositive ==
    (FillReturned /\ start_o <= end_o) => \A i \in 1..Len(qls) : qls[i] > 0

\* C4 as amended: for a < b every element of the returned list is strictly
\* positive; for a = b the list is [0.0], one element that is zero.
C4_PositiveUnlessZeroSpan ==
    /\ (FillReturned /\ start_o < end_o) => \A i \in 1..Len(qls) : qls[i] > 0
    /\ (fill_pc = "done" /\ start_o = end_o) => fill_result = Returned(<< 0 >>)

C4_Witness ==
    /\ FillReturned
    /\ start_o = end_o
    /\ start_o > 0
    /\ qls = << 0 >>

\* C5: for b < a the call ends in the error and returns no list; for a <= b
\* it never ends in the error.
C5_ErrorIffNegativeSpan ==
    fill_pc = "done" =>
        /\ fill_result.raised <=> end_o < start_o
        /\ fill_result.raised => fill_result.qls = <<>>

C5_Witness ==
    /\ fill_pc = "done"
    /\ end_o < start_o
    /\ fill_result.raised

---------------------------------------------------------------------------
(* PartNotesIndexer.run, for one series of self._score: the loop of line   *)
(* 380 treats every series alone and appends its Part to the list returned.*)
(*                                                                         *)
(* A Part is the list of its elements in the order music21 indexes them:   *)
(* by offset, elements of one offset in the order they were inserted.  An  *)
(* element is [offset, obj, duration]; obj is the position of the Note in  *)
(* the input series, which tells the Note objects apart.                   *)

\* the offsets a series can have: 0.0, one grid step, 1.0, 1.5, 5.0 and
\* three grid steps past 5.0
PartOffsets == {0, 1, QL, QL + QL \div 2, 5 * QL, 5 * QL + 3}

\* a new note.Note() has quarterLength 1.0; so has the list [1.0] of line 395
DefaultQL == QL

\* new_part.insert(off, obj)
stream_insert(part, off, obj) ==
    LET before == Cardinality({i \in DOMAIN part : part[i].offset <= off}) IN
    SubSeq(part, 1, before)
        \o << [offset |-> off, obj |-> obj, duration |-> DefaultQL] >>
        \o SubSeq(part, before + 1, Len(part))

\* lines 386-387: for off, obj in each_series.iteritems(): new_part.insert(off, obj)
RECURSIVE insert_all(_, _, _)
insert_all(part, series, i) ==
    IF i > Len(series) THEN part
    ELSE insert_all(stream_insert(part, series[i][1], series[i][2]), series, i + 1)

\* lines 390-395: new_part[i + 1] past the last element raises
\* StreamException, and qls is then [1.0]
event_qls(part, i) ==
    IF i + 1 > Len(part) THEN Returned(<< DefaultQL >>)
    ELSE fill_space_between_offsets(part[i].offset, part[i + 1].offset)

\* the last element of qls instead of the first
last_ql(found) == found[Len(found)]

\* line 396: qls[0]
first_ql(found) == found[1]

\* lines 389-399: every element gets its duration
set_durations(part) ==
    [i \in DOMAIN part |->
        [part[i] EXCEPT !.duration = first_ql(event_qls(part, i).qls)]]

\* _fill_space_between_offsets raises in the loop of line 389
fill_raises(part) == \E i \in DOMAIN part : event_qls(part, i).raised

\* PartNotesIndexer.run()
PartNotesIndexerRun ==
    /\ part_pc = "new"
    /\ LET part == insert_all(<<>>, each_series, 1) IN
       IF fill_raises(part)
       THEN /\ part_pc' = "raised"
            /\ new_part' = <<>>
       ELSE /\ part_pc' = "done"
            /\ new_part' = set_durations(part)
    /\ UNCHANGED each_series
    /\ UNCHANGED <<fill_vars, freq_vars, lily_vars, vc_vars>>

InitPart ==
    /\ \E offsets \in SeqsUpTo(PartOffsets, MaxEvents) :
          each_series = [i \in DOMAIN offsets |-> << offsets[i], i >>]
    /\ new_part = <<>>
    /\ part_pc = "new"
    /\ FillIdle
    /\ FreqIdle
    /\ LilyIdle
    /\ VcIdle

NextPart == PartNotesIndexerRun

SpecPart == InitPart /\ [][NextPart]_vars

---------------------------------------------------------------------------
(* Properties of PartNotesIndexer.run. *)

\* the offsets of the input series never decrease
NonDecreasingOffsets ==
    \A i \in 1..(Len(each_series) - 1) : each_series[i][1] <= each_series[i + 1][1]

\* C12: for a series of n >= 1 events with non-decreasing offsets, run()
\* makes a part of exactly the n events at their input offsets in order; the
\* last has duration 1.0 and every other event i has the first element of
\* _fill_space_between_offsets(offset_i, offset_{i+1}) as its duration.
C12_OneEventEachFirstUnit ==
    (part_pc # "new" /\ Len(each_series) >= 1 /\ NonDecreasingOffsets) =>
        /\ part_pc = "done"
        /\ Len(new_part) = Len(each_series)
        /\ \A i \in DOMAIN each_series :
              /\ new_part[i].offset = each_series[i][1]
              /\ new_part[i].obj = each_series[i][2]
              /\ new_part[i].duration =
                     IF i = Len(each_series) THEN QL
                     ELSE the_solver(each_series[i + 1][1] - each_series[i][1]).qls[1]

C12_Witness ==
    /\ part_pc = "done"
    /\ Len(each_series) = 3
    /\ NonDecreasingOffsets
    /\ each_series[1][1] = each_series[2][1]
    /\ Len(the_solver(each_series[3][1] - each_series[2][1]).qls) >= 3
    /\ new_part[1].duration = 0
    /\ new_part[2].duration = WholeNote
    /\ new_part[3].duration = QL

---------------------------------------------------------------------------
(* FrequencyExperimenter.run                                               *)
(*                                                                         *)
(* A pandas.Series of counts is a function from the values found to their  *)
(* number of occurrences.  A DataFrame is [index, columns, cell]: cell     *)
(* maps <<row, column>> to << n >> for the number n and to NaN for a       *)
(* missing value.  Column labels are strings; the position i that          *)
(* enumerate() gives a series of a list-form index is the label ToString(i).*)

\* the values an indexer's series can hold
Categories == {"x", "y"}
\* the keys a dict-form index can have
VoiceKeys == {"A", "B", "all"}

NaN == <<>>
Num(n) == << n >>

\* the jobs of a list in every order
Orders(jobs) ==
    {[i \in 1..Len(jobs) |-> jobs[p[i]]] : p \in Permutations(1..Len(jobs))}

\* some list of the members of a set
RECURSIVE SetToSeq(_)
SetToSeq(S) ==
    IF S = {} THEN <<>>
    ELSE LET x == CHOOSE x \in S : TRUE IN <<x>> \o SetToSeq(S \ {x})

\* sum(obj[1] == each)
Occurrences(series, each) == Cardinality({i \in DOMAIN series : series[i] = each})

\* experimenter_func((identifier, series))
experimenter_func(obj) ==
    << obj[1], [each \in Range(obj[2]) |-> Occurrences(obj[2], each)] >>

\* lines 100-103: one job (identifier, series) per series of the index
enumerate_label(i) == ToString(i)

JobsOf(idx) ==
    IF idx.form = "dict"
    THEN LET keys == SetToSeq(DOMAIN idx.voices) IN
         [i \in 1..Len(keys) |-> << keys[i], idx.voices[keys[i]] >>]
    ELSE [i \in 1..Len(idx.voices) |-> << enumerate_label(i - 1), idx.voices[i] >>]

\* _do_multiprocessing(experimenter_func, jobs): the result lists it can
\* return, one result per job in the order the jobs completed
do_multiprocessing(jobs) ==
    Orders([i \in 1..Len(jobs) |-> experimenter_func(jobs[i])])

\* post[result[0]] = result[1], for the results from position i on
RECURSIVE assemble_post_positional(_, _, _)
assemble_post_positional(post, res, i) ==
    IF i > Len(res) THEN post
    ELSE assemble_post_positional(
             [k \in DOMAIN post \cup {enumerate_label(i - 1)} |->
                 IF k = enumerate_label(i - 1) THEN res[i][2] ELSE post[k]],
             res, i + 1)

RECURSIVE assemble_post(_, _, _)
assemble_post(post, res, i) ==
    IF i > Len(res) THEN post
    ELSE assemble_post(
             [k \in DOMAIN post \cup {res[i][1]} |->
                 IF k = res[i][1] THEN res[i][2] ELSE post[k]],
             res, i + 1)

\* lines 109-112: the values found in any part
tokens(post) == UNION {DOMAIN post[part_i] : part_i \in DOMAIN post}

\* pandas.DataFrame(post) that leaves out the columns of empty series
DataFrame_without_empty(post) ==
    LET cols == {c \in DOMAIN post : DOMAIN post[c] # {}} IN
    [ index   |-> UNION {DOMAIN post[c] : c \in DOMAIN post},
      columns |-> cols,
      cell    |-> [rc \in (UNION {DOMAIN post[c] : c \in DOMAIN post}) \X cols |->
                     IF rc[1] \in DOMAIN post[rc[2]]
                     THEN Num(post[rc[2]][rc[1]]) ELSE NaN] ]

\* pandas.DataFrame(post) of a dict of Series: a column per key, a row per
\* label of any Series, NaN where a Series lacks the row's label
DataFrame(post) ==
    [ index   |-> UNION {DOMAIN post[c] : c \in DOMAIN post},
      columns |-> DOMAIN post,
      cell    |-> [rc \in (UNION {DOMAIN post[c] : c \in DOMAIN post}) \X DOMAIN post |->
                     IF rc[1] \in DOMAIN post[rc[2]]
                     THEN Num(post[rc[2]][rc[1]]) ELSE NaN] ]

\* a cell's part in a sum with skipna=True
SkipNa(v) == IF v = NaN THEN 0 ELSE v[1]

RECURSIVE RowSum(_, _, _)
RowSum(df, row, cols) ==
    IF cols = {} THEN 0
    ELSE LET c == CHOOSE c \in cols : TRUE IN
         SkipNa(df.cell[<<row, c>>]) + RowSum(df, row, cols \ {c})

\* post.sum(axis=1, skipna=True)
sum_axis1(df) == [row \in df.index |-> RowSum(df, row, df.columns)]

\* post[label] = column: the column is added, or replaces the one so labelled
set_column(df, label, column) ==
    [ index   |-> df.index,
      columns |-> df.columns \cup {label},
      cell    |-> [rc \in df.index \X (df.columns \cup {label}) |->
                     IF rc[2] = label THEN Num(column[rc[1]]) ELSE df.cell[rc]] ]

\* lines 105-117; post[i].reindex(index=tokens) returns a new Series that is
\* dropped, so lines 113-114 change nothing
frequency_table(res) ==
    LET post == DataFrame(assemble_post(<<>>, res, 1)) IN
    set_column(post, "all", sum_axis1(post))

\* FrequencyExperimenter.run()
FrequencyExperimenterRun ==
    /\ freq_pc = "new"
    /\ \E res \in do_multiprocessing(JobsOf(index)) :
          /\ results' = res
          /\ table' = frequency_table(res)
    /\ freq_pc' = "done"
    /\ UNCHANGED index
    /\ UNCHANGED <<fill_vars, lily_vars, part_vars, vc_vars>>

SeriesInputs == SeqsUpTo(Categories, MaxObs)

InitFreq ==
    /\ \/ \E voices \in SeqsUpTo(SeriesInputs, MaxVoices) :
              index = [form |-> "list", voices |-> voices]
       \/ \E keys \in SUBSET VoiceKeys : \E voices \in [keys -> SeriesInputs] :
              index = [form |-> "dict", voices |-> voices]
    /\ results = <<>>
    /\ table = <<>>
    /\ freq_pc = "new"
    /\ FillIdle
    /\ LilyIdle
    /\ PartIdle
    /\ VcIdle

NextFreq == FrequencyExperimenterRun

SpecFreq == InitFreq /\ [][NextFreq]_vars

---------------------------------------------------------------------------
(* Properties of FrequencyExperimenter.run. *)

\* the identifiers of the input's voices, and each voice's series
VoiceIds == {JobsOf(index)[i][1] : i \in DOMAIN JobsOf(index)}
SeriesOfVoice(v) ==
    LET jobs == JobsOf(index) IN jobs[CHOOSE i \in DOMAIN jobs : jobs[i][1] = v][2]

RECURSIVE OccurrencesIn(_, _)
OccurrencesIn(voices, c) ==
    IF voices = {} THEN 0
    ELSE LET v == CHOOSE v \in voices : TRUE IN
         Occurrences(SeriesOfVoice(v), c) + OccurrencesIn(voices \ {v}, c)

\* C6 as stated: for a non-empty collection of voices the rows are the union
\* of the values of all voices, the cell of category c and voice v is the
\* number of occurrences of c in v's series when that is at least 1 and NaN
\* otherwise, and the 'all' cell of a row is the sum of its voice cells.
C6_CountsAndTotals ==
    (freq_pc = "done" /\ VoiceIds # {}) =>
        /\ table.index = UNION {Range(SeriesOfVoice(v)) : v \in VoiceIds}
        /\ VoiceIds \cup {"all"} \subseteq table.columns
        /\ \A c \in table.index : \A v \in VoiceIds :
              table.cell[<<c, v>>] =
                  IF Occurrences(SeriesOfVoice(v), c) >= 1
                  THEN Num(Occurrences(SeriesOfVoice(v), c)) ELSE NaN
        /\ \A c \in table.index :
              table.cell[<<c, "all">>] = Num(OccurrencesIn(VoiceIds, c))

\* the input is a single voice whose series has no observation
SingleEmptyVoice ==
    /\ Cardinality(VoiceIds) = 1
    /\ \A v \in VoiceIds : SeriesOfVoice(v) = <<>>

\* C7 as stated: for a single voice with zero observations the table has zero
\* rows and its only column is 'all'.
C7_OnlyAllColumn ==
    (freq_pc = "done" /\ SingleEmptyVoice) =>
        /\ table.index = {}
        /\ table.columns = {"all"}

\* C7 as amended: for a single voice with zero observations the table has
\* zero rows and its columns are the voice's own column and 'all', both empty.
C7_EmptyVoiceColumnKept ==
    (freq_pc = "done" /\ SingleEmptyVoice) =>
        /\ table.index = {}
        /\ table.columns = VoiceIds \cup {"all"}
        /\ DOMAIN table.cell = {}

C7_Witness ==
    /\ freq_pc = "done"
    /\ index = [form |-> "list", voices |-> << <<>> >>]
    /\ table.index = {}
    /\ table.columns = {"0", "all"}

\* C8: the table is the same for every order in which the results come back:
\* every permutation of the returned list gives the same rows, columns and cells.
C8_OrderInsensitive ==
    freq_pc = "done" => \A res \in Orders(results) : frequency_table(res) = table

C8_Witness ==
    /\ freq_pc = "done"
    /\ index.form = "list"
    /\ Len(results) = 2
    /\ results[1][1] = "1"
    /\ results[1][2] # results[2][2]
    /\ table.index = {"x", "y"}

\* C13 as stated: whatever the voice identifiers are, 'all' included, the
\* table has for each input voice a column of that voice's own counts, in
\* addition to the 'all' total column: no voice's column is lost or replaced
\* by the total.
C13_EveryVoiceKeepsItsColumn ==
    freq_pc = "done" =>
        /\ Cardinality(table.columns) = Cardinality(VoiceIds) + 1
        /\ \A v \in VoiceIds :
              /\ v \in table.columns
              /\ \A c \in table.index :
                    table.cell[<<c, v>>] =
                        IF c \in Range(SeriesOfVoice(v))
                        THEN Num(Occurrences(SeriesOfVoice(v), c)) ELSE NaN

---------------------------------------------------------------------------
(* LilyPondIndexer.__init__                                                *)
(*                                                                         *)
(* A settings dict is a function from its keys to its values; the values   *)
(* True, False and None are the strings "True", "False" and "None".        *)

possible_settings == << "run_lilypond", "output_pathname", "annotation part" >>

default_settings ==
    [run_lilypond |-> "False", output_pathname |-> "None", annotation_part |-> "None"]

\* the keys a caller may give, and the values it may give them
CallerValues ==
    [run_lilypond |-> {"True", "False"},
     output_pathname |-> {"out.ly", "None"},
     annotation_part |-> {"part", "None"}] @@ ("annotation part" :> {"part"})

\* settings = {} if settings is None else settings
given_settings(arg) == IF arg.none THEN <<>> ELSE arg.items

\* lines 139-144 with the test "is True" left out
raises_no_pathname_whenever_present(given) ==
    /\ "run_lilypond" \in DOMAIN given
    /\ "output_pathname" \notin DOMAIN given

\* lines 139-144: whether __init__ raises RuntimeError(error_no_pathname)
raises_no_pathname(given) ==
    /\ "run_lilypond" \in DOMAIN given
    /\ given["run_lilypond"] = "True"
    /\ "output_pathname" \notin DOMAIN given

\* lines 139-152: self._settings when error_no_pathname is not raised
validated_settings(given) ==
    LET run_and_path ==
            IF "run_lilypond" \in DOMAIN given /\ given["run_lilypond"] = "True"
            THEN [run_lilypond |-> "True",
                  output_pathname |-> given["output_pathname"]]
            ELSE IF "output_pathname" \in DOMAIN given
            THEN [run_lilypond |-> default_settings["run_lilypond"],
                  output_pathname |-> given["output_pathname"]]
            ELSE [run_lilypond |-> default_settings["run_lilypond"],
                  output_pathname |-> default_settings["output_pathname"]]
    IN  run_and_path @@
        ("annotation_part" :>
            IF "annotation_part" \in DOMAIN given
            THEN given["annotation_part"] ELSE default_settings["annotation_part"])

\* __init__ raises error_no_pathname at line 144, after self._settings = {}
LilyInitRaisesNoPathname ==
    /\ lily_pc = "new"
    /\ raises_no_pathname(given_settings(settings))
    /\ self_settings' = <<>>
    /\ lily_pc' = "error_no_pathname"
    /\ UNCHANGED <<settings, score_ok, base_initialised>>
    /\ UNCHANGED <<lily_run, fill_vars, freq_vars, part_vars, vc_vars>>

\* Indexer.__init__ (line 153) raises RuntimeError for a score of the wrong type
LilyInitRaisesScore ==
    /\ lily_pc = "new"
    /\ ~raises_no_pathname(given_settings(settings))
    /\ ~score_ok
    /\ self_settings' = validated_settings(given_settings(settings))
    /\ lily_pc' = "error_score"
    /\ UNCHANGED <<settings, score_ok, base_initialised>>
    /\ UNCHANGED <<lily_run, fill_vars, freq_vars, part_vars, vc_vars>>

\* __init__ returns
LilyInitReturns ==
    /\ lily_pc = "new"
    /\ ~raises_no_pathname(given_settings(settings))
    /\ score_ok
    /\ self_settings' = validated_settings(given_settings(settings))
    /\ base_initialised' = TRUE
    /\ lily_pc' = "constructed"
    /\ UNCHANGED <<settings, score_ok>>
    /\ UNCHANGED <<lily_run, fill_vars, freq_vars, part_vars, vc_vars>>

\* line 171-172: the annotation part is inserted into the score when there is one
annotates(validated) == validated["annotation_part"] # "None"

\* line 176: if self._settings[u'run_lilypond'] is True
writes_file(validated) == validated["run_lilypond"] = "True"

\* line 177: open(None, 'w') raises TypeError; open of a pathname gives the file
open_fails(pathname) == pathname = "None"

\* run() returns the_score, after writing the file and running LilyPond on
\* it when run_lilypond is True
LilyRunReturns ==
    /\ lily_pc = "constructed"
    /\ lily_run.pc = "not_run"
    /\ ~(writes_file(self_settings) /\ open_fails(self_settings["output_pathname"]))
    /\ lily_run' = [pc |-> "returned",
                    annotated |-> annotates(self_settings),
                    opened |-> IF writes_file(self_settings)
                               THEN self_settings["output_pathname"] ELSE "nothing"]
    /\ UNCHANGED <<settings, score_ok, self_settings, base_initialised, lily_pc>>
    /\ UNCHANGED <<fill_vars, freq_vars, part_vars, vc_vars>>

\* run() reaches line 177 with no pathname to open, and open() raises
LilyRunOpenFails ==
    /\ lily_pc = "constructed"
    /\ lily_run.pc = "not_run"
    /\ writes_file(self_settings)
    /\ open_fails(self_settings["output_pathname"])
    /\ lily_run' = [pc |-> "open_failed",
                    annotated |-> annotates(self_settings),
                    opened |-> "nothing"]
    /\ UNCHANGED <<settings, score_ok, self_settings, base_initialised, lily_pc>>
    /\ UNCHANGED <<fill_vars, freq_vars, part_vars, vc_vars>>

InitLily ==
    /\ \/ settings = [none |-> TRUE, items |-> <<>>]
       \/ \E keys \in SUBSET DOMAIN CallerValues :
             \E items \in [keys -> UNION {CallerValues[k] : k \in DOMAIN CallerValues}] :
                /\ \A k \in keys : items[k] \in CallerValues[k]
                /\ settings = [none |-> FALSE, items |-> items]
    /\ score_ok \in BOOLEAN
    /\ self_settings = <<>>
    /\ base_initialised = FALSE
    /\ lily_pc = "new"
    /\ lily_run = [pc |-> "not_run", annotated |-> FALSE, opened |-> "nothing"]
    /\ FillIdle
    /\ FreqIdle
    /\ PartIdle
    /\ VcIdle

NextLily ==
    \/ LilyInitRaisesNoPathname
    \/ LilyInitRaisesScore
    \/ LilyInitReturns
    \/ LilyRunReturns
    \/ LilyRunOpenFails

SpecLily == InitLily /\ [][NextLily]_vars

---------------------------------------------------------------------------
(* Properties of LilyPondIndexer.__init__. *)

\* C9 as stated: after __init__ succeeds, self._settings holds every key of
\* possible_settings, with the caller's value when the caller supplied the
\* key and the value of default_settings otherwise.
C9_EveryPossibleSetting ==
    lily_pc = "constructed" =>
        \A i \in DOMAIN possible_settings :
            LET key == possible_settings[i] IN
            /\ key \in DOMAIN self_settings
            /\ self_settings[key] =
                   IF key \in DOMAIN given_settings(settings)
                   THEN given_settings(settings)[key] ELSE default_settings[key]

\* the caller asks to run LilyPond and gives no output_pathname key
RunWithoutPathname ==
    /\ ~settings.none
    /\ "run_lilypond" \in DOMAIN settings.items
    /\ settings.items["run_lilypond"] = "True"
    /\ "output_pathname" \notin DOMAIN settings.items

\* C10: with run_lilypond true and no output_pathname key, construction
\* fails with error_no_pathname before the base class is initialised; with
\* run_lilypond absent or false that error is never raised.
C10_NoPathnameError ==
    lily_pc # "new" =>
        /\ RunWithoutPathname => (lily_pc = "error_no_pathname" /\ ~base_initialised)
        /\ ~RunWithoutPathname => lily_pc # "error_no_pathname"

C10_Witness ==
    /\ lily_pc = "error_no_pathname"
    /\ RunWithoutPathname
    /\ "annotation_part" \in DOMAIN settings.items
    /\ ~base_initialised

\* C11 as stated: in every LilyPondIndexer whose construction succeeded, if
\* the validated run_lilypond is true then the validated output_pathname is
\* an actual path, not None, and run() never reaches the file-writing step
\* without a path.
C11_RunHasPathname ==
    lily_pc = "constructed" =>
        /\ self_settings["run_lilypond"] = "True" =>
               self_settings["output_pathname"] # "None"
        /\ lily_run.pc # "open_failed"

---------------------------------------------------------------------------
\* VisController (src/controllers/vis_controller.py).
\*
\* A ListOfPieces is an object: lists_of_pieces[id] is the number of pieces in
\* the id-th ListOfPieces made, and analyzer_list_of_pieces and
\* importer_thread_list_of_pieces hold the id of the object the attribute refers
\* to.  Controllers are named by the attribute that holds them.

MaxLists == 3       \* ListOfPieces objects made in one behaviour
MaxPieces == 2      \* pieces the importer's thread puts in one ListOfPieces
MaxFiles == 2       \* files in the importer's ListOfFiles

\* what a step records in vc_last: its name and the state it started from
Called(op) ==
    [op |-> op, files_before |-> list_of_files,
     lists_before |-> Len(lists_of_pieces), controller_before |-> _active_controller]

\* ListOfPieces(): a new, empty object; its id is that of no earlier object
ListOfPieces(heap) == Append(heap, 0)

\* set_active_controller(value), lines 97-100: the value _active_controller has
\* afterwards.  The signal emitted at line 100 changes no field of VisController.
set_active_controller(current, value) ==
    IF current # value THEN value ELSE current

\* __init__, lines 52-89, returning.  Analyzer() comes with its ListOfPieces and
\* Importer() with an empty ListOfFiles; line 81 makes the importer's thread
\* refer to the analyzer's ListOfPieces.
VisControllerInit ==
    /\ vc_last.op = "idle"
    /\ lists_of_pieces' = ListOfPieces(lists_of_pieces)
    /\ analyzer_list_of_pieces' = Len(lists_of_pieces')
    /\ importer_thread_list_of_pieces' = analyzer_list_of_pieces'
    /\ list_of_files' = 0
    /\ _active_controller' = set_active_controller("None", "importer")
    /\ importer_thread' = "idle"
    /\ analyzer_thread' = "idle"
    /\ vc_last' = Called("__init__")
    /\ UNCHANGED <<fill_vars, freq_vars, lily_vars, part_vars>>

\* __init__ raising at line 89: line 83 sets active_controller, line 98 reads
\* _active_controller, which no line of this class sets before; the read
\* succeeds only if Controller provides the attribute.  No VisController
\* exists afterwards.
VisControllerInitRaises ==
    /\ vc_last.op = "idle"
    /\ lists_of_pieces' = ListOfPieces(lists_of_pieces)
    /\ analyzer_list_of_pieces' = Len(lists_of_pieces')
    /\ importer_thread_list_of_pieces' = analyzer_list_of_pieces'
    /\ vc_last' = Called("__init__ raised")
    /\ UNCHANGED <<_active_controller, list_of_files, importer_thread, analyzer_thread>>
    /\ UNCHANGED <<fill_vars, freq_vars, lily_vars, part_vars>>

\* a VisController exists
constructed == vc_last.op \notin {"idle", "__init__ raised"}

\* choose_files with line 109 left out: only the analyzer gets the new list
choose_files_forgets_thread ==
    /\ constructed
    /\ Len(lists_of_pieces) < MaxLists
    /\ lists_of_pieces' = ListOfPieces(lists_of_pieces)
    /\ analyzer_list_of_pieces' = Len(lists_of_pieces')
    /\ _active_controller' = set_active_controller(_active_controller, "importer")
    /\ vc_last' = Called("choose_files")
    /\ UNCHANGED <<importer_thread_list_of_pieces, list_of_files,
                   importer_thread, analyzer_thread>>
    /\ UNCHANGED <<fill_vars, freq_vars, lily_vars, part_vars>>

\* choose_files, lines 102-111
choose_files ==
    /\ constructed
    /\ Len(lists_of_pieces) < MaxLists
    /\ lists_of_pieces' = ListOfPieces(lists_of_pieces)
    /\ analyzer_list_of_pieces' = Len(lists_of_pieces')
    /\ importer_thread_list_of_pieces' = Len(lists_of_pieces')
    /\ _active_controller' = set_active_controller(_active_controller, "importer")
    /\ vc_last' = Called("choose_files")
    /\ UNCHANGED <<list_of_files, importer_thread, analyzer_thread>>
    /\ UNCHANGED <<fill_vars, freq_vars, lily_vars, part_vars>>

\* import_files, lines 113-117: start() of a running thread changes nothing
import_files ==
    /\ constructed
    /\ importer_thread' = "running"
    /\ vc_last' = Called("import_files")
    /\ UNCHANGED <<lists_of_pieces, analyzer_list_of_pieces,
                   importer_thread_list_of_pieces, _active_controller,
                   list_of_files, analyzer_thread>>
    /\ UNCHANGED <<fill_vars, freq_vars, lily_vars, part_vars>>

\* setup_analysis, lines 119-125, the slot of importer.thread.finished
\* (connected at line 77): the thread has ended
setup_analysis ==
    /\ constructed
    /\ importer_thread = "running"
    /\ importer_thread' = "idle"
    /\ _active_controller' = set_active_controller(_active_controller, "analyzer")
    /\ vc_last' = Called("setup_analysis")
    /\ UNCHANGED <<lists_of_pieces, analyzer_list_of_pieces,
                   importer_thread_list_of_pieces, list_of_files, analyzer_thread>>
    /\ UNCHANGED <<fill_vars, freq_vars, lily_vars, part_vars>>

\* analyze_pieces, lines 127-131
analyze_pieces ==
    /\ constructed
    /\ analyzer_thread' = "running"
    /\ vc_last' = Called("analyze_pieces")
    /\ UNCHANGED <<lists_of_pieces, analyzer_list_of_pieces,
                   importer_thread_list_of_pieces, _active_controller,
                   list_of_files, importer_thread>>
    /\ UNCHANGED <<fill_vars, freq_vars, lily_vars, part_vars>>

\* setup_experiment, lines 133-139, the slot of analyzer.thread.finished
\* (connected at line 78): the thread has ended
setup_experiment ==
    /\ constructed
    /\ analyzer_thread = "running"
    /\ analyzer_thread' = "idle"
    /\ _active_controller' = set_active_controller(_active_controller, "experimenter")
    /\ vc_last' = Called("setup_experiment")
    /\ UNCHANGED <<lists_of_pieces, analyzer_list_of_pieces,
                   importer_thread_list_of_pieces, list_of_files, importer_thread>>
    /\ UNCHANGED <<fill_vars, freq_vars, lily_vars, part_vars>>

\* The importer's thread, while it runs, puts a piece in the ListOfPieces its
\* list_of_pieces attribute refers to (that is what line 81 hands it the list
\* for); it changes the object and never the attribute.
importer_thread_run ==
    /\ constructed
    /\ importer_thread = "running"
    /\ lists_of_pieces[importer_thread_list_of_pieces] < MaxPieces
    /\ lists_of_pieces' =
           [lists_of_pieces EXCEPT ![importer_thread_list_of_pieces] = @ + 1]
    /\ vc_last' = Called("importer.thread")
    /\ UNCHANGED <<analyzer_list_of_pieces, importer_thread_list_of_pieces,
                   _active_controller, list_of_files, importer_thread, analyzer_thread>>
    /\ UNCHANGED <<fill_vars, freq_vars, lily_vars, part_vars>>

\* The user adds a file to the importer's ListOfFiles, through the importer.
importer_add_file ==
    /\ constructed
    /\ list_of_files < MaxFiles
    /\ list_of_files' = list_of_files + 1
    /\ vc_last' = Called("importer.add_file")
    /\ UNCHANGED <<lists_of_pieces, analyzer_list_of_pieces,
                   importer_thread_list_of_pieces, _active_controller,
                   importer_thread, analyzer_thread>>
    /\ UNCHANGED <<fill_vars, freq_vars, lily_vars, part_vars>>

InitVc ==
    /\ FillIdle
    /\ FreqIdle
    /\ LilyIdle
    /\ PartIdle
    /\ VcIdle

NextVc ==
    \/ VisControllerInit
    \/ VisControllerInitRaises
    \/ choose_files
    \/ import_files
    \/ setup_analysis
    \/ analyze_pieces
    \/ setup_experiment
    \/ importer_thread_run
    \/ importer_add_file

SpecVc == InitVc /\ [][NextVc]_vars

===========================================================================
